---- MODULE Spec2Model ----
(***************************************************************************)
(* run0edit: edit a single file as root.                                   *)
(*                                                                         *)
(* The unprivileged program (run0edit_main.py) validates the payload and   *)
(* the path, creates a scratch file and asks the privilege broker (run0)   *)
(* to start the elevated payload (run0edit_inner.py).  The payload stages  *)
(* the target into the scratch file, runs the editor as the original user, *)
(* and commits the scratch file back, toggling the immutable attribute.    *)
(*                                                                         *)
(* Both programs are sequential; each has a position (mpc, ipc).  The      *)
(* file system, the external tools and the operator are the environment:   *)
(* their answers are drawn with \E where the code asks for them.           *)
(***************************************************************************)
EXTENDS Integers, Sequences, FiniteSets, TLC

\* ------------------------------------------------------------------ bounds
\* longest file content, in bytes
MaxLen == 1
\* most FILE arguments on one command line
MaxPaths == 2
\* most directory components between the root and the target
MaxDepth == 1

\* longest path given to escape_path, in characters
MaxPathLen == 4

\* longest output of lsattr given to is_immutable, in characters
MaxOutLen == 3

\* most directories between the root and the target when
\* check_directory_existence is examined on its own
MaxWalkDepth == 3

\* ------------------------------------------------------- program constants
\* the broker's exit status for "execution environment construction failed"
EXIT_NAMESPACE == 226

\* -------------------------------------------------------------------- data
Bytes == {"a", "b"}

RECURSIVE SeqsUpTo(_)
SeqsUpTo(n) ==
    IF n = 0 THEN {<<>>}
    ELSE LET shorter == SeqsUpTo(n - 1)
         IN  shorter \cup {Append(s, b) : s \in {t \in shorter : Len(t) = n - 1}, b \in Bytes}

\* the contents a file can have
Data == SeqsUpTo(MaxLen)

\* the prefixes of a content (what a copy interrupted part-way has written)
Prefixes(d) == {SubSeq(d, 1, k) : k \in 0..Len(d)}

None == "None"

\* no exit status yet
NoCode == 0 - 1

VARIABLES
    \* ---- the unprivileged program (run0edit_main.py)
    mpc,          \* position of main() / run()
    opts,         \* parsed command line: [npaths, bgcolor, debug, no_prompt]
    idx,          \* index of the path being processed (for path in args.paths)
    exit_code,    \* main()'s exit_code variable
    mret,         \* what main() returned (NoCode while running)
    mraised,      \* the exception main() let escape (None if none)
    valid,        \* result of validate_path for the current path
    tempExists,   \* the scratch file (TempFile.path) exists
    temp,         \* the scratch file's content
    run0_args,    \* the Run0Arguments built for the current path
    returncode,   \* process.returncode of the broker (NoCode before it exits)
    \* ---- the file system of the current path
    payload,      \* the file at INNER_SCRIPT_PATH: "ok", "modified" or "unreadable"
    tgtKind,      \* what is at the resolved target path
    tgtData,      \* the target's content (when a regular file)
    tgtImm,       \* the target carries the immutable attribute
    parentKind,   \* what is at the target's parent path
    dirImm,       \* the parent directory carries the immutable attribute
    rofs,         \* the file system is mounted read-only
    otherRO,      \* the elevated process lacks access for another reason
    userSees,     \* the caller can stat the target (its directory is searchable)
    \* ---- the elevated payload (run0edit_inner.py)
    ipc,          \* position of main() / run()
    iargs,        \* argument vector of the payload
    original_file_exists,
    immutable,    \* result of handle_check_readonly
    should_copy,  \* result of should_copy_to_original (FALSE before)
    copyFailed,   \* a FileCopyError is propagating through the finally clause
    ierr,         \* the exception run() raised (None if none)
    iraised,      \* the exception the payload's main() let escape (None if none)
    istatus,      \* the payload's exit status (NoCode while running)
    \* ---- observation
    trace,        \* the external operations of the current session, in order
    msgs,         \* the messages printed in the current session
    nchecks,      \* digest checks made by this invocation of main()
    nbroker,      \* broker invocations made by this invocation of main()
    orig,         \* the target as it was when the session began: [kind, data, imm, dimm]
    \* ---- a function examined on its own
    fin,          \* the argument it is applied to (None in the program's runs)
    fout          \* its result (None before it is applied)

mainVars == <<mpc, opts, idx, exit_code, mret, mraised, valid, run0_args, returncode>>
tgtVars == <<payload, tgtKind, tgtData, tgtImm, parentKind, dirImm, rofs, otherRO, userSees>>
fsVars == <<tgtVars, tempExists, temp>>
innerVars == <<ipc, iargs, original_file_exists, immutable, should_copy, copyFailed,
               ierr, iraised, istatus>>
obsVars == <<trace, msgs, nchecks, nbroker, orig>>
fnVars == <<fin, fout>>
vars == <<mainVars, fsVars, innerVars, obsVars, fnVars>>

\* an external operation, as it appears in the trace
Ev(op, path, ok) == [op |-> op, path |-> path, ok |-> ok]

\* -------------------------------------------------------------------------
\* The world as the unprivileged caller sees it when run() begins.
\*   kind     what is at the resolved path
\*   userRW   os.access(path, R_OK | W_OK) for the caller
\*   anc      the directory components between / and the target, each
\*            "dir" (listable directory), "nolist" (directory that cannot be
\*            listed), "notdir" (exists, not a directory) or "absent"
\*   statOK   os.stat(parent) succeeds
\*   visible  the caller can stat the target: every directory above it is
\*            searchable (os.path.isdir, isfile and exists are False otherwise)
\*   pathQuery, dirQuery   os.statvfs succeeds on the path / on the directory
\*   rofs, dirRofs         ST_RDONLY of the file system holding the path /
\*            the directory (they differ when the target is a mount point)
AncStates == {"dir", "nolist", "notdir", "absent"}

IsDirState(s) == s \in {"dir", "nolist"}

\* whether the chain of ancestors can exist: below a missing component or a
\* non-directory everything is missing
ChainOK(anc) ==
    \A i \in 2..Len(anc) : ~IsDirState(anc[i - 1]) => anc[i] = "absent"

AncChainsUpTo(depth) == {a \in UNION {[1..n -> AncStates] : n \in 0..depth} : ChainOK(a)}

AncChains == AncChainsUpTo(MaxDepth)

\* the parent directory of the target, read off the chain
ParentOf(anc) ==
    IF Len(anc) = 0 THEN "dir"
    ELSE IF IsDirState(anc[Len(anc)]) THEN "dir"
    ELSE anc[Len(anc)]

Worlds ==
    {w \in [kind : {"file", "absent", "dir", "special"},
            userRW : BOOLEAN,
            anc : AncChains,
            statOK : BOOLEAN,
            visible : BOOLEAN,
            pathQuery : BOOLEAN,
            dirQuery : BOOLEAN,
            rofs : BOOLEAN,
            dirRofs : BOOLEAN,
            data : Data,
            imm : BOOLEAN,
            dimm : BOOLEAN,
            otherRO : BOOLEAN] :
        \* something is at the path only if its parent is a directory
        /\ w.kind # "absent" => ParentOf(w.anc) = "dir"
        \* a missing target is seen as missing, and lives on its directory's
        \* file system
        /\ w.kind = "absent" => w.visible /\ w.rofs = w.dirRofs
        \* a target that cannot be reached cannot be opened or queried
        /\ ~w.visible => ~w.userRW /\ ~w.pathQuery
        \* statvfs of a missing path fails; of a missing directory too
        /\ w.kind = "absent" => ~w.pathQuery
        /\ ParentOf(w.anc) # "dir" => ~w.dirQuery
        /\ ParentOf(w.anc) = "absent" => ~w.statOK
        \* only a regular file has content, and only it is opened by the caller
        /\ w.kind # "file" => w.data = <<>> /\ ~w.userRW /\ ~w.imm
        \* nothing on a read-only file system or under the attribute is writable
        /\ (w.rofs \/ w.imm) => ~w.userRW
        /\ ParentOf(w.anc) # "dir" => ~w.dimm}

\* ------------------------------------------------ the unprivileged program

\* mutant: an unreadable payload passes the gate
ValidateInnerScriptOpenFails(p) == p # "modified"

\* validate_inner_script: the payload is readable and has the pinned digest
ValidateInnerScript(p) ==
    IF p = "unreadable" THEN FALSE ELSE p = "ok"

\* mutant: a parent that is not a directory leaves the question open
PathExistsFromBoolMaybe(cond) == IF cond THEN "YES" ELSE "MAYBE"

PathExistsFromBool(cond) == IF cond THEN "YES" ELSE "NO"

\* check_directory_existence: walk the components from the root; component i
\* is looked up in the listing of the directory before it (the root lists)
RECURSIVE WalkFrom(_, _, _)
WalkFrom(anc, i, statOK) ==
    IF i > Len(anc)
    THEN IF ~statOK THEN "MAYBE" ELSE PathExistsFromBool(ParentOf(anc) = "dir")
    ELSE IF i > 1 /\ anc[i - 1] = "notdir" THEN "NO"
    ELSE IF i > 1 /\ anc[i - 1] = "nolist" THEN "MAYBE"
    ELSE IF anc[i] = "absent" THEN "NO"
    ELSE WalkFrom(anc, i + 1, statOK)

CheckDirectoryExistence(w) == WalkFrom(w.anc, 1, w.statOK)

\* readonly_filesystem: "True", "False", or None when statvfs fails
ReadonlyFilesystem(queryOK, ro) ==
    IF queryOK THEN (IF ro THEN "True" ELSE "False") ELSE None

\* what os.path.isdir, isfile and exists report to the caller: a target
\* that cannot be reached looks missing
Seen(kind, visible) == IF visible THEN kind ELSE "absent"

\* mutant: a directory that may or may not exist is turned away, and so is a
\* path whose file system cannot be queried
ValidatePathStrict(w) ==
    IF Seen(w.kind, w.visible) = "dir" THEN "is a directory"
    ELSE IF Seen(w.kind, w.visible) = "file" /\ w.userRW THEN "writable by the current user"
    ELSE IF CheckDirectoryExistence(w) # "YES" THEN "No such directory"
    ELSE IF ~w.pathQuery /\ ~w.dirQuery THEN "read-only filesystem"
    ELSE IF (w.pathQuery /\ w.rofs) \/ (~w.pathQuery /\ w.dirRofs)
         THEN "read-only filesystem" ELSE "ok"

\* validate_path: "ok", or the reason for the rejection
ValidatePath(w) ==
    IF Seen(w.kind, w.visible) = "dir" THEN "is a directory"
    ELSE IF Seen(w.kind, w.visible) = "file" /\ w.userRW THEN "writable by the current user"
    ELSE IF CheckDirectoryExistence(w) = "NO" THEN "No such directory"
    ELSE LET first == ReadonlyFilesystem(w.pathQuery, w.rofs)
             readonly == IF first = None THEN ReadonlyFilesystem(w.dirQuery, w.dirRofs)
                         ELSE first
         IN  IF readonly = "True" THEN "read-only filesystem" ELSE "ok"

\* the two characters escape_path deals with, and one it leaves alone
Backslash == "\\"
DoubleQuote == "\""
PathChars == {Backslash, DoubleQuote, "a"}

\* str.replace(old, new) for a single character old: every occurrence, from
\* left to right
RECURSIVE StrReplace(_, _, _)
StrReplace(str, old, new) ==
    IF str = <<>> THEN <<>>
    ELSE (IF Head(str) = old THEN new ELSE <<Head(str)>>) \o StrReplace(Tail(str), old, new)

\* mutant: the two replacements in the other order
EscapePathQuotesFirst(path) ==
    StrReplace(StrReplace(path, DoubleQuote, <<Backslash, DoubleQuote>>),
               Backslash, <<Backslash, Backslash>>)

\* escape_path: path.replace("\\", "\\\\").replace('"', '\\"')
EscapePath(path) ==
    StrReplace(StrReplace(path, Backslash, <<Backslash, Backslash>>),
               DoubleQuote, <<Backslash, DoubleQuote>>)

\* build_run0_arguments: the text of the ReadWritePaths property
RwPathPropString(rw_path, temp_path) ==
    <<"ReadWritePaths=", DoubleQuote>> \o EscapePath(rw_path) \o <<DoubleQuote, " ", DoubleQuote>>
        \o EscapePath(temp_path) \o <<DoubleQuote>>

\* build_run0_arguments: description=f'run0edit "{path}"'
Description(path) == <<"run0edit", " ", DoubleQuote>> \o path \o <<DoubleQuote>>

\* TempFile: the scratch file's name begins with the target's name
TempPathString(path) == path \o <<".", "x">>

\* sandbox_path: the path itself if it exists, else its directory
SandboxPath(kind) == IF kind # "absent" THEN "target" ELSE "parent"

\* a systemd property NAME=VALUE; the value is kept as its list of words
Prop(name, value) == [name |-> name, value |-> value]

SYSTEM_CALL_DENY ==
    <<"@aio", "@chown", "@keyring", "@memlock", "@mount", "@privileged", "@resources",
      "@setuid", "memfd_create">>

\* the fixed sandbox baseline
SYSTEMD_SANDBOX_PROPERTIES ==
    <<Prop("CapabilityBoundingSet", <<"CAP_DAC_OVERRIDE", "CAP_FOWNER", "CAP_LINUX_IMMUTABLE">>),
      Prop("DevicePolicy", <<"closed">>),
      Prop("LockPersonality", <<"yes">>),
      Prop("MemoryDenyWriteExecute", <<"yes">>),
      Prop("NoNewPrivileges", <<"yes">>),
      Prop("PrivateDevices", <<"yes">>),
      Prop("PrivateIPC", <<"yes">>),
      Prop("PrivateNetwork", <<"yes">>),
      Prop("ProcSubset", <<"pid">>),
      Prop("ProtectClock", <<"yes">>),
      Prop("ProtectControlGroups", <<"yes">>),
      Prop("ProtectHostname", <<"yes">>),
      Prop("ProtectKernelLogs", <<"yes">>),
      Prop("ProtectKernelModules", <<"yes">>),
      Prop("ProtectKernelTunables", <<"yes">>),
      Prop("ProtectProc", <<"noaccess">>),
      Prop("ReadOnlyPaths", <<"/">>),
      Prop("RestrictAddressFamilies", <<"AF_UNIX">>),
      Prop("RestrictNamespaces", <<"yes">>),
      Prop("RestrictRealtime", <<"yes">>),
      Prop("RestrictSUIDSGID", <<"yes">>),
      Prop("SystemCallArchitectures", <<"native">>),
      Prop("SystemCallFilter", <<"@system-service">>),
      Prop("SystemCallFilter", <<"~">> \o SYSTEM_CALL_DENY),
      Prop("SystemCallErrorNumber", <<"EPERM">>)>>

\* build_run0_arguments: the ReadWritePaths property, each path escaped and
\* quoted so that it is one word of the value
RwPathProp(rw_path, temp_path) == Prop("ReadWritePaths", <<rw_path, temp_path>>)

\* build_run0_arguments: the request handed to the broker; kind is what
\* os.path.exists finds at the path
BuildRun0Arguments(kind, o) ==
    [systemd_properties |->
         SYSTEMD_SANDBOX_PROPERTIES \o <<RwPathProp(SandboxPath(kind), "temp")>>,
     extra_options |-> IF o.bgcolor # None THEN <<"--background">> ELSE <<>>,
     command_args |-> <<"INNER_SCRIPT_PATH", "path", "temp", "editor">>
                      \o (IF o.bgcolor # None THEN <<o.bgcolor>> ELSE <<>>),
     setenv |-> (IF o.debug THEN {"RUN0EDIT_DEBUG"} ELSE {})
                \cup (IF o.no_prompt THEN {"RUN0EDIT_NO_PROMPT"} ELSE {})]

NoArgs == [systemd_properties |-> <<>>, extra_options |-> <<>>, command_args |-> <<>>, setenv |-> {}]

\* mutant: only_if_empty is ignored
RemoveDeletesAlways(only_if_empty, content) == TRUE

\* TempFile.remove: whether the scratch file is deleted
RemoveDeletes(only_if_empty, content) == ~only_if_empty \/ Len(content) = 0

Options == [npaths : 1..MaxPaths, bgcolor : {None, "44", ""}, debug : BOOLEAN,
            no_prompt : BOOLEAN]

Init ==
    /\ mpc = "validate_script"
    /\ opts \in Options
    /\ idx = 0
    /\ exit_code = 0
    /\ mret = NoCode
    /\ mraised = None
    /\ valid = None
    /\ tempExists = FALSE
    /\ temp = <<>>
    /\ run0_args = NoArgs
    /\ returncode = NoCode
    /\ payload \in {"ok", "modified", "unreadable"}
    /\ tgtKind = "absent"
    /\ tgtData = <<>>
    /\ tgtImm = FALSE
    /\ parentKind = "dir"
    /\ dirImm = FALSE
    /\ rofs = FALSE
    /\ otherRO = FALSE
    /\ userSees = TRUE
    /\ ipc = "idle"
    /\ iargs = <<>>
    /\ original_file_exists = FALSE
    /\ immutable = FALSE
    /\ should_copy = FALSE
    /\ copyFailed = FALSE
    /\ ierr = None
    /\ iraised = None
    /\ istatus = NoCode
    /\ trace = <<>>
    /\ msgs = {}
    /\ nchecks = 0
    /\ nbroker = 0
    /\ orig = [kind |-> "absent", data |-> <<>>, imm |-> FALSE, dimm |-> FALSE]
    /\ fin = None
    /\ fout = None

\* main() returns code c
MainReturns(c) ==
    /\ mret' = c
    /\ mpc' = "done"

\* mutant: the loop goes on after a failure
LoopBreaksNever(c) == FALSE

\* main(): if exit_code != 0: break
LoopBreaks(c) == c # 0

\* mutant: the error is never re-raised
MainReraisesNever(debug) == FALSE

\* main(): except CommandNotFoundError ... if args.debug: raise e
MainReraises(debug) == debug

\* run() returned c to the loop of main(): stop at the first failure
RunReturns(c) ==
    /\ exit_code' = c
    /\ IF LoopBreaks(c) \/ idx = opts.npaths
       THEN MainReturns(c) /\ idx' = idx
       ELSE mret' = mret /\ mpc' = "r_validate" /\ idx' = idx + 1

\* main(): the integrity gate
MValidateScript ==
    /\ mpc = "validate_script"
    /\ nchecks' = nchecks + 1
    /\ IF ValidateInnerScript(payload)
       THEN /\ mpc' = "usage"
            /\ UNCHANGED <<mret, msgs>>
       ELSE /\ msgs' = msgs \cup {"ERROR: Inner script was not found or did not have expected hash"}
            /\ MainReturns(1)
    /\ UNCHANGED <<fnVars, opts, idx, exit_code, mraised, valid, run0_args,
                   returncode, fsVars, innerVars, trace, nbroker, orig>>

\* main(): catch_usage_mistake; the first FILE may look like a command, and
\* then the operator is asked
MCatchUsage ==
    /\ mpc = "usage"
    /\ \E looksLikeCommand \in BOOLEAN, confirmed \in BOOLEAN :
          IF ~opts.no_prompt /\ opts.npaths > 1 /\ looksLikeCommand /\ ~confirmed
          THEN /\ msgs' = msgs \cup {"Warning: looks like an executable command"}
               /\ MainReturns(2)
          ELSE /\ mpc' = "editor"
               /\ UNCHANGED <<mret, msgs>>
    /\ UNCHANGED <<fnVars, opts, idx, exit_code, mraised, valid, run0_args,
                   returncode, fsVars, innerVars, trace, nchecks, nbroker, orig>>

\* main(): handle_editor_selection, then the loop over the paths begins
MEditorSelection ==
    /\ mpc = "editor"
    /\ \E found \in BOOLEAN :
          IF found
          THEN /\ mpc' = "r_validate"
               /\ idx' = 1
               /\ exit_code' = 0
               /\ UNCHANGED <<mret, msgs>>
          ELSE /\ msgs' = msgs \cup {"editor selection failed"}
               /\ MainReturns(1)
               /\ UNCHANGED <<idx, exit_code>>
    /\ UNCHANGED <<fnVars, opts, mraised, valid, run0_args, returncode,
                   fsVars, innerVars, trace, nchecks, nbroker, orig>>

\* the broker's own failures: it exits with such a status without starting
\* the payload (authentication refused, namespace creation failed, killed)
BrokerFailures == {1, EXIT_NAMESPACE, 130}

\* the variables of the payload before it is started
InnerIdle ==
    /\ ipc' = "idle"
    /\ iargs' = <<>>
    /\ original_file_exists' = FALSE
    /\ immutable' = FALSE
    /\ should_copy' = FALSE
    /\ copyFailed' = FALSE
    /\ ierr' = None
    /\ iraised' = None
    /\ istatus' = NoCode

\* what run() finds at a path: the file system as the elevated process will
\* see it, and the verdict of validate_path for the caller
Sessions ==
    {[kind |-> w.kind, data |-> w.data, imm |-> w.imm, dimm |-> w.dimm,
      parent |-> ParentOf(w.anc), rofs |-> w.rofs, otherRO |-> w.otherRO,
      sees |-> w.visible, valid |-> ValidatePath(w)] : w \in Worlds}

\* mutant: only a directory is turned away
RejectsOnlyDirectory(v) == v = "is a directory"

\* run(): validate_path raised InvalidPathError
Rejects(v) == v # "ok"

\* validate_path gets as far as check_directory_existence, which resolves the
\* path again with pathlib.Path(path).resolve()
ValidatePathResolves(v) == v \notin {"is a directory", "writable by the current user"}

\* run(): the path is resolved and validated.  The file system found at the
\* path is drawn here; a rejected path makes run() return 1.
RValidate ==
    /\ mpc = "r_validate"
    /\ \E s \in Sessions :
          /\ tgtKind' = s.kind
          /\ tgtData' = s.data
          /\ tgtImm' = s.imm
          /\ parentKind' = s.parent
          /\ dirImm' = s.dimm
          /\ rofs' = s.rofs
          /\ otherRO' = s.otherRO
          /\ userSees' = s.sees
          /\ orig' = [kind |-> s.kind, data |-> s.data, imm |-> s.imm, dimm |-> s.dimm]
          /\ valid' = s.valid
          /\ trace' = <<Ev("realpath", "target", TRUE)>>
                       \o (IF ValidatePathResolves(s.valid)
                           THEN <<Ev("realpath", "target", TRUE)>> ELSE <<>>)
                       \o <<Ev("validate_path", "target", s.valid = "ok")>>
          /\ IF ~Rejects(s.valid)
             THEN /\ mpc' = "r_temp"
                  /\ msgs' = {}
                  /\ UNCHANGED <<idx, exit_code, mret>>
             ELSE /\ msgs' = {s.valid}
                  /\ RunReturns(1)
    /\ tempExists' = FALSE
    /\ temp' = <<>>
    /\ run0_args' = NoArgs
    /\ returncode' = NoCode
    /\ InnerIdle
    /\ UNCHANGED <<fnVars, opts, mraised, payload, nchecks, nbroker>>

\* run(): TempFile(path) creates the empty scratch file in a private directory
RTempFile ==
    /\ mpc = "r_temp"
    /\ tempExists' = TRUE
    /\ temp' = <<>>
    /\ trace' = Append(trace, Ev("mkstemp", "temp", TRUE))
    /\ mpc' = "r_build"
    /\ UNCHANGED <<fnVars, opts, idx, exit_code, mret, mraised, valid, run0_args, returncode,
                   tgtVars, innerVars, msgs, nchecks, nbroker, orig>>

\* run(): build_run0_arguments; find_command raises CommandNotFoundError when
\* python3 or run0 is missing, which main() catches
RBuild ==
    /\ mpc = "r_build"
    /\ \E havePython3 \in BOOLEAN, haveRun0 \in BOOLEAN :
          IF havePython3 /\ haveRun0
          THEN /\ run0_args' = BuildRun0Arguments(Seen(tgtKind, userSees), opts)
               /\ mpc' = "r_broker"
               /\ UNCHANGED <<mret, mraised, msgs>>
          ELSE /\ msgs' = msgs \cup {"command not found"}
               /\ mpc' = "done"
               /\ IF MainReraises(opts.debug)
                  THEN mraised' = "CommandNotFoundError" /\ mret' = mret
                  ELSE mret' = 1 /\ mraised' = mraised
               /\ UNCHANGED run0_args
    /\ UNCHANGED <<fnVars, opts, idx, exit_code, valid, returncode,
                   fsVars, innerVars, trace, nchecks, nbroker, orig>>

\* run(): subprocess.run(run0 ...).  The broker either fails on its own or
\* starts the payload with the command arguments it was given.  Without the
\* target's directory the namespace cannot be built.
RBroker ==
    /\ mpc = "r_broker"
    /\ nbroker' = nbroker + 1
    /\ trace' = Append(trace, Ev("run0", "payload", TRUE))
    /\ \/ /\ parentKind = "dir"
          /\ mpc' = "r_wait"
          /\ ipc' = "parse_args"
          /\ iargs' = Tail(run0_args.command_args)
          /\ UNCHANGED returncode
       \/ /\ \E status \in BrokerFailures :
                /\ parentKind # "dir" => status = EXIT_NAMESPACE
                /\ returncode' = status
          /\ mpc' = "r_result"
          /\ UNCHANGED <<ipc, iargs>>
    /\ UNCHANGED <<fnVars, opts, idx, exit_code, mret, mraised, valid,
                   run0_args, fsVars, original_file_exists, immutable, should_copy,
                   copyFailed, ierr, iraised, istatus, msgs, nchecks, orig>>

\* mutant: the broker never reports the end of the payload
PayloadExitedNever(pc) == FALSE

\* run(): subprocess.run returns once the process it started has exited
PayloadExited(pc) == pc = "exit"

\* the payload has exited: the broker exits with the payload's status
BrokerReturn ==
    /\ mpc = "r_wait"
    /\ PayloadExited(ipc)
    /\ returncode' = istatus
    /\ mpc' = "r_result"
    /\ ipc' = "idle"
    /\ UNCHANGED <<fnVars, opts, idx, exit_code, mret, mraised, valid,
                   run0_args, fsVars, iargs, original_file_exists, immutable,
                   should_copy, copyFailed, ierr, iraised, istatus, obsVars>>

\* mutant: every failure of the broker becomes 1
ReturnCodeResultFlat(rc) == IF rc = 0 THEN 0 ELSE 1

\* run(): what run() returns for the broker's status
ReturnCodeResult(rc) ==
    IF rc = 0 THEN 0
    ELSE IF rc = EXIT_NAMESPACE THEN 1
    ELSE rc

\* run(): match process.returncode; the scratch file is removed or kept
RResult ==
    /\ mpc = "r_result"
    /\ LET only_if_empty == returncode \notin {0, EXIT_NAMESPACE}
           deleted == RemoveDeletes(only_if_empty, temp)
           code == ReturnCodeResult(returncode)
       IN  /\ tempExists' = ~deleted
           /\ temp' = IF deleted THEN <<>> ELSE temp
           /\ trace' = IF deleted THEN Append(trace, Ev("remove", "temp", TRUE)) ELSE trace
           /\ msgs' = IF returncode = EXIT_NAMESPACE
                      THEN msgs \cup {"No such directory, or path is in a privileged location"}
                      ELSE msgs
           /\ RunReturns(code)
    /\ UNCHANGED <<fnVars, opts, mraised, valid, run0_args, returncode, tgtVars, innerVars,
                   nchecks, nbroker, orig>>

\* ---------------------------------------------------- the elevated payload

\* parse_args: "too few", "too many", or "ok"
ParseArgs(args) ==
    IF Len(args) < 3 THEN "too few"
    ELSE IF (Len(args) = 4 /\ args[4] # "--debug") \/ Len(args) > 4 THEN "too many"
    ELSE "ok"

\* parse_args: the debug flag
Debug(args) == Len(args) = 4 /\ args[4] = "--debug"

\* check_file_exists: "True", "False", or the error it raises
CheckFileExists(kind, pkind) ==
    IF kind = "absent"
    THEN IF pkind = "dir" THEN "False" ELSE "NoDirectoryError"
    ELSE IF kind # "file" THEN "NotRegularFileError"
    ELSE "True"

\* what the operator may type at the prompt
Responses == {<<>>, <<"y">>, <<"Y", "e", "s">>, <<"n">>, <<"N", "o">>, <<"o", "y">>}

Lower(c) == IF c = "Y" THEN "y" ELSE IF c = "N" THEN "n" ELSE c

\* should_remove_immutable: response.lower().startswith("y")
ShouldRemoveImmutable(response) ==
    Len(response) > 0 /\ Lower(response[1]) = "y"

\* the object whose access and attribute decide: the target if it exists,
\* else its directory (base_path in run(), chattr_path at the commit)
ChattrPath(exists) == IF exists THEN "target" ELSE "parent"

\* run(): base_path, the object handed to handle_check_readonly
BasePath(exists) == IF exists THEN "target" ELSE "parent"

\* mutant: the commit always asks for a new file
CommitCreatesAlways(exists) == TRUE

\* copy_to_original and copy_to_immutable_original: create=not original_file_exists
CommitCreates(exists) == ~exists

\* the immutable attribute of the object at a path
AttrOf(path) == IF path = "target" THEN tgtImm ELSE dirImm

\* whether there is an object at a path
ExistsAt(path) == IF path = "target" THEN tgtKind # "absent" ELSE parentKind = "dir"

\* os.access(path, R_OK | W_OK) for the elevated process
Access(path) == ~rofs /\ ~AttrOf(path) /\ ~otherRO

\* check_readonly once the access check has failed: "True" or the error raised.
\* lsattr is "missing", "fails" or "ok".
CheckReadonly(ro, lsattr, attr, prompt_immutable, response) ==
    IF ro THEN "ReadOnlyFilesystemError"
    ELSE IF lsattr = "missing" THEN "CommandNotFoundError"
    ELSE IF lsattr = "ok" /\ attr
         THEN IF prompt_immutable /\ ~ShouldRemoveImmutable(response)
              THEN "ReadOnlyImmutableError"
              ELSE "True"
    ELSE "ReadOnlyOtherError"

\* check_readonly: should_remove_immutable is called, so the operator is asked
AsksOperator(ro, lsattr, attr, prompt_immutable) ==
    ~ro /\ lsattr = "ok" /\ attr /\ prompt_immutable

\* check_readonly from its first line: "False" when os.access succeeds
CheckReadonlyFrom(access, ro, lsattr, attr, prompt_immutable, response) ==
    IF access THEN "False" ELSE CheckReadonly(ro, lsattr, attr, prompt_immutable, response)

\* handle_check_readonly: the message printed for an error
ReadonlyMessage(err) ==
    IF err = "ReadOnlyFilesystemError" THEN {"is on a read-only filesystem"}
    ELSE IF err = "ReadOnlyImmutableError"
         THEN {"user declined to remove immutable attribute; exiting"}
    ELSE IF err = "ReadOnlyOtherError" THEN {"is read-only"}
    ELSE {}

\* mutant: the declined removal is not caught
RunCatchesNothing(err) == FALSE

\* run(): the errors of handle_check_readonly that make run() return normally
RunCatches(err) == err = "ReadOnlyImmutableError"

\* a copy interrupted after the destination was opened: what it has written
PartialCopies(src) == {p \in Prefixes(src) : Len(p) < Len(src) \/ Len(src) = 0}

\* copy_file_contents: the outcomes [ok, kind, data] for a destination that is
\* now destKind with destData.  os.open may fail and leave it alone; after it
\* the destination exists and is truncated, and open(src) or a read may fail.
CopyOutcomes(src, destKind, destData, canOpen) ==
    {[ok |-> FALSE, kind |-> destKind, data |-> destData]}
    \cup (IF canOpen
          THEN {[ok |-> FALSE, kind |-> "file", data |-> p] : p \in PartialCopies(src)}
               \cup {[ok |-> TRUE, kind |-> "file", data |-> src]}
          ELSE {})

\* mutant: a new destination is created without O_EXCL
CopyFlagsNoExcl(create) ==
    {"O_NOFOLLOW", "O_TRUNC", "O_WRONLY"} \cup (IF create THEN {"O_CREAT"} ELSE {})

\* mutant: the destination is opened without O_NOFOLLOW
CopyFlagsFollow(create) ==
    {"O_TRUNC", "O_WRONLY"} \cup (IF create THEN {"O_CREAT", "O_EXCL"} ELSE {})

\* copy_file_contents: the flags of os.open(dest, flags)
CopyFlags(create) ==
    {"O_NOFOLLOW", "O_TRUNC", "O_WRONLY"} \cup (IF create THEN {"O_CREAT", "O_EXCL"} ELSE {})

\* os.open with these flags on a final path component of this kind, access
\* rights apart: a missing one needs O_CREAT, an existing one fails O_EXCL,
\* a symlink also fails O_NOFOLLOW, a directory cannot be written
OpenSucceeds(flags, kind) ==
    IF kind = "absent" THEN "O_CREAT" \in flags
    ELSE IF kind = "file" THEN "O_EXCL" \notin flags
    ELSE IF kind = "symlink" THEN "O_EXCL" \notin flags /\ "O_NOFOLLOW" \notin flags
    ELSE FALSE

\* os.open(dest, flags) on the target as it is now
TargetOpens(create) ==
    /\ ~rofs
    /\ OpenSucceeds(CopyFlags(create), tgtKind)
    /\ IF tgtKind = "absent" THEN parentKind = "dir" /\ ~dirImm ELSE ~tgtImm

\* mutant: contents compared by size only (a shallow comparison)
ShouldCopyShallow(exists, tempData, originalData) ==
    IF exists THEN Len(tempData) # Len(originalData) ELSE Len(tempData) > 0

\* mutant: an empty scratch file is committed to a new target
ShouldCopyEmptyNew(exists, tempData, originalData) ==
    IF exists THEN tempData # originalData ELSE Len(tempData) >= 0

\* mutant: an existing target is always written
ShouldCopyAlways(exists, tempData, originalData) ==
    IF exists THEN TRUE ELSE Len(tempData) > 0

\* should_copy_to_original
ShouldCopyToOriginal(exists, tempData, originalData) ==
    IF exists THEN tempData # originalData ELSE Len(tempData) > 0

\* mutant: run_editor never raises
RunEditorErrorNone(outcome) == None

\* mutant: a failing editor is not reported
RunEditorErrorIgnoresExit(outcome) ==
    IF outcome = "missing" THEN "EditTempFileError" ELSE None

\* run_editor: the error raised for an outcome of run0 ("ok", "missing", "failed")
RunEditorError(outcome) ==
    IF outcome = "ok" THEN None ELSE "EditTempFileError"

\* mutant: the result of chattr is read the wrong way round
RunChattrRaisesOnSuccess(ok) == ok

\* mutant: a failed chattr goes unnoticed
RunChattrRaisesNever(ok) == FALSE

\* run_chattr: a failed or missing chattr raises ChattrError
RunChattrRaises(ok) == ~ok

\* mutant: another attribute is applied after the copy
ReapplyAttributeAppendOnly == "+a"

\* mutant: the attribute is removed a second time instead of re-applied
ReapplyAttributeMinus == "-i"

\* the attribute argument of the second run_chattr
ReapplyAttribute == "+i"

\* mutant: the attribute is re-applied only after a copy that succeeded
FinallyOnlyOnSuccess(copyOK) == copyOK

\* copy_to_immutable_original: the finally clause runs whether or not the
\* copy raised
FinallyRuns(copyOK) == TRUE

\* filecmp.cmp(temp_file, original_file, shallow=False)
FilecmpCmp(a, b) == a = b

\* mutant: the OSError of an unreadable file escapes instead of being turned
\* into FileContentsMismatchError
VerifyCopyUncaught(readable, tempData, originalData) ==
    IF ~readable THEN "OSError"
    ELSE IF ~FilecmpCmp(tempData, originalData) THEN "FileContentsMismatchError"
    ELSE None

\* copy_to_immutable_original: the verification after the attribute is back;
\* the error raised, or None
VerifyCopy(readable, tempData, originalData) ==
    IF ~readable THEN "FileContentsMismatchError"
    ELSE IF ~FilecmpCmp(tempData, originalData) THEN "FileContentsMismatchError"
    ELSE None

\* main(): run() is called without prompt_immutable, which keeps its default
\* whatever the environment of the payload holds
PromptImmutable(setenv) == TRUE

\* mutant: invalid arguments are reported like a failed run
ExitStatusInvalidIsFailure(parsed, err) ==
    IF parsed # "ok" THEN 1 ELSE IF err # None THEN 1 ELSE 0

\* main(): the exit status of the payload for the result of parse_args and
\* the exception run() raised (a re-raised exception ends the interpreter
\* with status 1 as well)
ExitStatus(parsed, err) ==
    IF parsed # "ok" THEN 2 ELSE IF err # None THEN 1 ELSE 0

\* run() raises err: main() returns 1, or re-raises err in debug mode
RunRaises(err) ==
    /\ ierr' = err
    /\ iraised' = IF Debug(iargs) THEN err ELSE None
    /\ istatus' = ExitStatus("ok", err)
    /\ ipc' = "exit"

\* run() returns normally: main() returns 0
RunDone ==
    /\ ierr' = None
    /\ iraised' = None
    /\ istatus' = ExitStatus("ok", None)
    /\ ipc' = "exit"

\* main(): parse_args
IParseArgs ==
    /\ ipc = "parse_args"
    /\ IF ParseArgs(iargs) = "ok"
       THEN /\ ipc' = "classify"
            /\ UNCHANGED <<istatus, msgs>>
       ELSE /\ msgs' = msgs \cup {"run0edit_inner.py: Error: " \o ParseArgs(iargs) \o " arguments"}
            /\ istatus' = ExitStatus(ParseArgs(iargs), None)
            /\ ipc' = "exit"
    /\ UNCHANGED <<fnVars, mainVars, fsVars, iargs, original_file_exists, immutable, should_copy,
                   copyFailed, ierr, iraised, trace, nchecks, nbroker, orig>>

\* run(): realpath and check_file_exists
IClassify ==
    /\ ipc = "classify"
    /\ trace' = trace \o <<Ev("realpath", "target", TRUE), Ev("lstat", "target", TRUE)>>
    /\ LET r == CheckFileExists(tgtKind, parentKind)
       IN  IF r \in {"True", "False"}
           THEN /\ original_file_exists' = (r = "True")
                /\ ipc' = "check_readonly"
                /\ UNCHANGED <<ierr, iraised, istatus, msgs>>
           ELSE /\ msgs' = msgs \cup {IF r = "NoDirectoryError"
                                         THEN "invalid argument: directory does not exist"
                                         ELSE "invalid argument: not a regular file"}
                /\ RunRaises(r)
                /\ UNCHANGED original_file_exists
    /\ UNCHANGED <<fnVars, mainVars, fsVars, iargs, immutable, should_copy, copyFailed,
                   nchecks, nbroker, orig>>

\* run(): handle_check_readonly on the operative object; a declined removal
\* makes run() return normally, the other errors make it fail
ICheckReadonly ==
    /\ ipc = "check_readonly"
    /\ LET base == BasePath(original_file_exists)
       IN  IF Access(base)
           THEN /\ immutable' = FALSE
                /\ ipc' = "stage"
                /\ trace' = Append(trace, Ev("access", base, TRUE))
                /\ UNCHANGED <<ierr, iraised, istatus, msgs>>
           ELSE \E lsattr \in {"missing", "fails", "ok"}, response \in Responses :
                  LET r == CheckReadonly(rofs, lsattr, AttrOf(base),
                                           PromptImmutable(run0_args.setenv), response)
                      asked == AsksOperator(rofs, lsattr, AttrOf(base),
                                            PromptImmutable(run0_args.setenv))
                  IN  /\ trace' = trace \o <<Ev("access", base, FALSE)>>
                                   \o (IF rofs THEN <<>> ELSE <<Ev("lsattr", base, lsattr = "ok")>>)
                                   \o (IF asked
                                       THEN <<Ev("prompt", base, ShouldRemoveImmutable(response))>>
                                       ELSE <<>>)
                      /\ msgs' = msgs \cup ReadonlyMessage(r)
                                     \cup (IF asked THEN {"has the immutable attribute"} ELSE {})
                      /\ IF r = "True"
                         THEN /\ immutable' = TRUE
                              /\ ipc' = "stage"
                              /\ UNCHANGED <<ierr, iraised, istatus>>
                         ELSE /\ UNCHANGED immutable
                              /\ IF RunCatches(r) THEN RunDone ELSE RunRaises(r)
    /\ UNCHANGED <<fnVars, mainVars, fsVars, iargs, original_file_exists, should_copy, copyFailed,
                   nchecks, nbroker, orig>>

\* mutant: the target is copied to the scratch file whether it exists or not
StagesAlways(exists) == TRUE

\* run(): if original_file_exists, the target is copied before the editor runs
Stages(exists) == exists

\* run(): an existing target is copied into the scratch file
IStage ==
    /\ ipc = "stage"
    /\ IF Stages(original_file_exists)
       THEN \E o \in CopyOutcomes(tgtData, "file", temp, TRUE) :
               /\ temp' = o.data
               /\ trace' = Append(trace, Ev("copy", "temp", o.ok))
               /\ IF o.ok
                  THEN /\ ipc' = "edit"
                       /\ UNCHANGED <<ierr, iraised, istatus, msgs>>
                  ELSE /\ msgs' = msgs \cup {"failed to copy to temporary file"}
                       /\ RunRaises("FileCopyError")
       ELSE /\ ipc' = "edit"
            /\ UNCHANGED <<temp, trace, ierr, iraised, istatus, msgs>>
    /\ UNCHANGED <<fnVars, mainVars, tgtVars, tempExists, iargs, original_file_exists, immutable,
                   should_copy, copyFailed, nchecks, nbroker, orig>>

\* run_editor: the command line given to run_command
RunEditorCommand(uid, editor, path) == <<"run0", <<"--user=", uid>>, "--", editor, path>>

\* mutant: the editor is started on the target
EditorCommandOnTarget(args, uid) == RunEditorCommand(uid, args[3], args[1])

\* main() and run(): the command line of the editor for the payload's
\* arguments <<original_file, temp_file, editor, ...>> and the uid of SUDO_UID
EditorCommand(args, uid) == RunEditorCommand(uid, args[3], args[2])

\* run(): run_editor; the editor runs as the original user on the scratch file
IEdit ==
    /\ ipc = "edit"
    /\ \E outcome \in {"ok", "missing", "failed"}, written \in Data :
          /\ temp' = IF outcome = "missing" THEN temp ELSE written
          /\ trace' = Append(trace, Ev("editor", EditorCommand(iargs, "SUDO_UID")[5],
                                       outcome = "ok"))
          /\ IF RunEditorError(outcome) = None
             THEN /\ ipc' = "decide"
                  /\ UNCHANGED <<ierr, iraised, istatus, msgs>>
             ELSE /\ msgs' = msgs \cup {IF outcome = "missing"
                                        THEN "failed to call run0 to start editor"
                                        ELSE "failed to edit temporary file"}
                  /\ RunRaises(RunEditorError(outcome))
    /\ UNCHANGED <<fnVars, mainVars, tgtVars, tempExists, iargs, original_file_exists, immutable,
                   should_copy, copyFailed, nchecks, nbroker, orig>>

\* handle_copy_to_original: the decision gate
IDecide ==
    /\ ipc = "decide"
    /\ should_copy' = ShouldCopyToOriginal(original_file_exists, temp, tgtData)
    /\ IF should_copy'
       THEN /\ ipc' = IF immutable THEN "chattr_minus" ELSE "copy"
            /\ UNCHANGED <<ierr, iraised, istatus, msgs>>
       ELSE /\ msgs' = msgs \cup {IF original_file_exists THEN "unchanged" ELSE "not created"}
            /\ RunDone
    /\ UNCHANGED <<fnVars, mainVars, fsVars, iargs, original_file_exists, immutable, copyFailed,
                   trace, nchecks, nbroker, orig>>

\* the messages of handle_copy_to_original for the errors of the commit
CopyFailedMessage == {"unable to copy contents of temporary file"}
ChattrFailedMessage ==
    {"failed to run chattr", "WARNING: the immutable attribute may have been removed!"}
MismatchMessage ==
    {"WARNING: contents does not match contents of edited tempfile",
     "File contents may be corrupted!"}

\* copy_to_immutable_original: run_chattr("-i", chattr_path)
IChattrMinus ==
    /\ ipc = "chattr_minus"
    /\ LET path == ChattrPath(original_file_exists)
       IN  \E ok \in {b \in BOOLEAN : b => ExistsAt(path)} :
              /\ trace' = Append(trace, Ev("chattr -i", path, ok))
              /\ tgtImm' = IF ok /\ path = "target" THEN FALSE ELSE tgtImm
              /\ dirImm' = IF ok /\ path = "parent" THEN FALSE ELSE dirImm
              /\ IF ~RunChattrRaises(ok)
                 THEN /\ ipc' = "copy"
                      /\ UNCHANGED <<ierr, iraised, istatus, msgs>>
                 ELSE /\ msgs' = msgs \cup ChattrFailedMessage
                      /\ RunRaises("ChattrError")
    /\ UNCHANGED <<fnVars, mainVars, payload, tgtKind, tgtData, parentKind, rofs, otherRO, userSees,
                   tempExists, temp, iargs, original_file_exists, immutable, should_copy,
                   copyFailed, nchecks, nbroker, orig>>

\* copy_to_original: copy_file_contents(temp_file, original_file, create=...),
\* inside try/finally when the attribute was removed
ICopy ==
    /\ ipc = "copy"
    /\ \E o \in CopyOutcomes(temp, tgtKind, tgtData,
                            TargetOpens(CommitCreates(original_file_exists))) :
          /\ tgtKind' = IF tgtKind = "symlink" THEN tgtKind ELSE o.kind
          /\ tgtData' = o.data
          /\ trace' = Append(trace, Ev("copy", "target", o.ok))
          /\ IF immutable /\ FinallyRuns(o.ok)
             THEN /\ ipc' = "chattr_plus"
                  /\ copyFailed' = ~o.ok
                  /\ UNCHANGED <<ierr, iraised, istatus, msgs>>
             ELSE /\ UNCHANGED copyFailed
                  /\ IF ~o.ok
                     THEN /\ msgs' = msgs \cup CopyFailedMessage
                          /\ RunRaises("FileCopyError")
                     ELSE IF immutable
                     THEN /\ ipc' = "cmp"
                          /\ UNCHANGED <<ierr, iraised, istatus, msgs>>
                     ELSE /\ msgs' = msgs
                          /\ RunDone
    /\ UNCHANGED <<fnVars, mainVars, payload, tgtImm, parentKind, dirImm, rofs, otherRO, userSees,
                   tempExists, temp, iargs, original_file_exists, immutable, should_copy,
                   nchecks, nbroker, orig>>

\* mutant: the notice is printed before chattr +i is run
ReappliedNoticeAlways(raised) == {"Immutable attribute reapplied."}

\* copy_to_immutable_original: the print after run_chattr("+i") in the finally
\* clause is reached only when run_chattr did not raise
ReappliedNotice(raised) == IF raised THEN {} ELSE {"Immutable attribute reapplied."}

\* copy_to_immutable_original: the finally clause, run_chattr("+i", chattr_path)
IChattrPlus ==
    /\ ipc = "chattr_plus"
    /\ LET path == ChattrPath(original_file_exists)
       IN  \E ok \in {b \in BOOLEAN : b => ExistsAt(path)} :
              /\ trace' = Append(trace, Ev("chattr " \o ReapplyAttribute, path, ok))
              /\ tgtImm' = IF ok /\ path = "target" THEN ReapplyAttribute = "+i" ELSE tgtImm
              /\ dirImm' = IF ok /\ path = "parent" THEN ReapplyAttribute = "+i" ELSE dirImm
              /\ IF RunChattrRaises(ok)
                 THEN /\ msgs' = msgs \cup ReappliedNotice(TRUE) \cup ChattrFailedMessage
                      /\ RunRaises("ChattrError")
                 ELSE IF copyFailed
                 THEN /\ msgs' = msgs \cup ReappliedNotice(FALSE) \cup CopyFailedMessage
                      /\ RunRaises("FileCopyError")
                 ELSE /\ msgs' = msgs \cup ReappliedNotice(FALSE)
                      /\ ipc' = "cmp"
                      /\ UNCHANGED <<ierr, iraised, istatus>>
    /\ copyFailed' = FALSE
    /\ UNCHANGED <<fnVars, mainVars, payload, tgtKind, tgtData, parentKind, rofs, otherRO, userSees,
                   tempExists, temp, iargs, original_file_exists, immutable, should_copy,
                   nchecks, nbroker, orig>>

\* copy_to_immutable_original: the committed target is compared with the
\* scratch file; a file that cannot be read counts as a mismatch
ICompare ==
    /\ ipc = "cmp"
    /\ \E readable \in BOOLEAN :
          /\ trace' = Append(trace, Ev("cmp", "target", readable))
          /\ LET e == VerifyCopy(readable, temp, tgtData)
             IN  IF e = None
                 THEN /\ msgs' = msgs
                      /\ RunDone
                 ELSE /\ msgs' = IF e = "FileContentsMismatchError"
                                 THEN msgs \cup MismatchMessage ELSE msgs
                      /\ RunRaises(e)
    /\ UNCHANGED <<fnVars, mainVars, fsVars, iargs, original_file_exists, immutable, should_copy,
                   copyFailed, nchecks, nbroker, orig>>

Next ==
    \/ MValidateScript
    \/ MCatchUsage
    \/ MEditorSelection
    \/ RValidate
    \/ RTempFile
    \/ RBuild
    \/ RBroker
    \/ BrokerReturn
    \/ RResult
    \/ IParseArgs
    \/ IClassify
    \/ ICheckReadonly
    \/ IStage
    \/ IEdit
    \/ IDecide
    \/ IChattrMinus
    \/ ICopy
    \/ IChattrPlus
    \/ ICompare

Spec == Init /\ [][Next]_vars

\* one edit session: main() called with a single path
InitLive == Init /\ opts.npaths = 1

\* every call returns and the interpreter goes on: a step that can be taken
\* is taken
SpecLive == InitLive /\ [][Next]_vars /\ WF_vars(Next)

\* ------------------------------------------------ the payload run directly
\* The payload started with any argument vector (sys.argv[1:]) on any file
\* system, with the empty scratch file in place; the caller waits.
PayloadArgs ==
    {<<"path", "temp">>,
     <<"path", "temp", "editor">>,
     <<"path", "temp", "editor", "--debug">>,
     <<"path", "temp", "editor", "44">>,
     <<"path", "temp", "editor", "--debug", "44">>}

InitPayload ==
    /\ mpc = "r_wait"
    /\ opts = [npaths |-> 1, bgcolor |-> None, debug |-> FALSE, no_prompt |-> FALSE]
    /\ idx = 1
    /\ exit_code = 0
    /\ mret = NoCode
    /\ mraised = None
    /\ valid = "ok"
    /\ tempExists = TRUE
    /\ temp = <<>>
    /\ run0_args = NoArgs
    /\ returncode = NoCode
    /\ payload = "ok"
    /\ \E s \in Sessions :
          /\ tgtKind = s.kind
          /\ tgtData = s.data
          /\ tgtImm = s.imm
          /\ parentKind = s.parent
          /\ dirImm = s.dimm
          /\ rofs = s.rofs
          /\ otherRO = s.otherRO
          /\ userSees = s.sees
          /\ orig = [kind |-> s.kind, data |-> s.data, imm |-> s.imm, dimm |-> s.dimm]
    /\ ipc = "parse_args"
    /\ iargs \in PayloadArgs
    /\ original_file_exists = FALSE
    /\ immutable = FALSE
    /\ should_copy = FALSE
    /\ copyFailed = FALSE
    /\ ierr = None
    /\ iraised = None
    /\ istatus = NoCode
    /\ trace = <<>>
    /\ msgs = {}
    /\ nchecks = 0
    /\ nbroker = 0
    /\ fin = None
    /\ fout = None

NextPayload ==
    \/ IParseArgs
    \/ IClassify
    \/ ICheckReadonly
    \/ IStage
    \/ IEdit
    \/ IDecide
    \/ IChattrMinus
    \/ ICopy
    \/ IChattrPlus
    \/ ICompare

SpecPayload == InitPayload /\ [][NextPayload]_vars

\* --------------------------------------------- the payload and another actor
\* While the payload runs, after it has classified the target, another actor
\* interferes once at the target path: it creates a file where there was
\* none, or puts a symlink to a file of its choice there.  For a symlink,
\* tgtData is the content of the file it points to (what a read or write
\* that follows the link reaches).
AfterClassification == {"check_readonly", "stage", "edit", "decide", "chattr_minus", "copy"}

NoInterferenceYet == tgtKind = orig.kind /\ tgtData = orig.data

OtherCreates ==
    /\ ipc \in AfterClassification
    /\ NoInterferenceYet
    /\ tgtKind = "absent"
    /\ parentKind = "dir" /\ ~dirImm /\ ~rofs
    /\ tgtKind' = "file"
    /\ tgtData' \in Data
    /\ UNCHANGED <<fnVars, mainVars, payload, tgtImm, parentKind, dirImm, rofs, otherRO,
                   userSees, tempExists, temp, innerVars, obsVars>>

OtherSwapsSymlink ==
    /\ ipc \in AfterClassification
    /\ NoInterferenceYet
    /\ tgtKind \in {"absent", "file"}
    /\ parentKind = "dir" /\ ~dirImm /\ ~rofs
    /\ tgtKind' = "symlink"
    /\ tgtData' \in Data
    /\ UNCHANGED <<fnVars, mainVars, payload, tgtImm, parentKind, dirImm, rofs, otherRO,
                   userSees, tempExists, temp, innerVars, obsVars>>

NextRace ==
    \/ IParseArgs
    \/ IClassify
    \/ ICheckReadonly
    \/ IStage
    \/ IEdit
    \/ IDecide
    \/ IChattrMinus
    \/ ICopy
    \/ IChattrPlus
    \/ ICompare
    \/ OtherCreates
    \/ OtherSwapsSymlink

SpecRace == InitPayload /\ [][NextRace]_vars

\* ------------------------------------------- functions examined on their own
\* The program is not running: its variables keep one fixed value.
progVars == <<mainVars, fsVars, innerVars, obsVars>>

ProgramAtRest ==
    /\ mpc = "done"
    /\ opts = [npaths |-> 1, bgcolor |-> None, debug |-> FALSE, no_prompt |-> FALSE]
    /\ idx = 0
    /\ exit_code = 0
    /\ mret = NoCode
    /\ mraised = None
    /\ valid = None
    /\ tempExists = FALSE
    /\ temp = <<>>
    /\ run0_args = NoArgs
    /\ returncode = NoCode
    /\ payload = "ok"
    /\ tgtKind = "absent"
    /\ tgtData = <<>>
    /\ tgtImm = FALSE
    /\ parentKind = "dir"
    /\ dirImm = FALSE
    /\ rofs = FALSE
    /\ otherRO = FALSE
    /\ userSees = TRUE
    /\ ipc = "idle"
    /\ iargs = <<>>
    /\ original_file_exists = FALSE
    /\ immutable = FALSE
    /\ should_copy = FALSE
    /\ copyFailed = FALSE
    /\ ierr = None
    /\ iraised = None
    /\ istatus = NoCode
    /\ trace = <<>>
    /\ msgs = {}
    /\ nchecks = 0
    /\ nbroker = 0
    /\ orig = [kind |-> "absent", data |-> <<>>, imm |-> FALSE, dimm |-> FALSE]

\* the strings over PathChars of length at most n
RECURSIVE StringsUpTo(_)
StringsUpTo(n) ==
    IF n = 0 THEN {<<>>}
    ELSE LET shorter == StringsUpTo(n - 1)
         IN  shorter \cup {Append(t, c) : t \in {u \in shorter : Len(u) = n - 1}, c \in PathChars}

PathStrings == StringsUpTo(MaxPathLen)

\* escape_path applied to every bounded string
InitEscapePath ==
    /\ ProgramAtRest
    /\ fin \in PathStrings
    /\ fout = None

ApplyEscapePath ==
    /\ fout = None
    /\ fout' = EscapePath(fin)
    /\ UNCHANGED <<fin, progVars>>

NextEscapePath == ApplyEscapePath

SpecEscapePath == InitEscapePath /\ [][NextEscapePath]_vars

\* the texts build_run0_arguments makes of every bounded path: the
\* description and the ReadWritePaths property, in this order
InitBuildStrings ==
    /\ ProgramAtRest
    /\ fin \in PathStrings
    /\ fout = None

ApplyBuildStrings ==
    /\ fout = None
    /\ fout' = <<Description(fin), RwPathPropString(fin, TempPathString(fin))>>
    /\ UNCHANGED <<fin, progVars>>

NextBuildStrings == ApplyBuildStrings

SpecBuildStrings == InitBuildStrings /\ [][NextBuildStrings]_vars

\* the characters of an lsattr line: the attribute marker, a placeholder and
\* the blank between the attribute field and the file name
OutChars == {"i", "-", " "}

\* str.strip(): leading and trailing white space removed
RECURSIVE LStrip(_)
LStrip(str) ==
    IF str = <<>> THEN <<>>
    ELSE IF Head(str) = " " THEN LStrip(Tail(str)) ELSE str

RECURSIVE RStrip(_)
RStrip(str) ==
    IF str = <<>> THEN <<>>
    ELSE IF str[Len(str)] = " " THEN RStrip(SubSeq(str, 1, Len(str) - 1)) ELSE str

Strip(str) == RStrip(LStrip(str))

\* str.split(maxsplit=1)[0]: the characters before the first white space
\* (IndexError on a string with nothing but white space)
RECURSIVE UpToBlank(_)
UpToBlank(str) ==
    IF str = <<>> \/ Head(str) = " " THEN <<>>
    ELSE <<Head(str)>> \o UpToBlank(Tail(str))

SplitFirst(str) == IF LStrip(str) = <<>> THEN "IndexError" ELSE UpToBlank(LStrip(str))

\* run_command("lsattr", ...): find_command raises CommandNotFoundError when
\* the tool is missing, a non-zero exit raises SubprocessError, otherwise the
\* captured output is returned
RunCommand(tool, out) ==
    IF tool = "missing" THEN "CommandNotFoundError"
    ELSE IF tool = "fails" THEN "SubprocessError"
    ELSE out

\* is_immutable: "True", "False", or the exception that leaves it
IsImmutable(tool, out) ==
    LET result == RunCommand(tool, out)
    IN  IF result = "SubprocessError" THEN "False"
        ELSE IF result = "CommandNotFoundError" THEN result
        ELSE LET token == SplitFirst(Strip(result))
             IN  IF token = "IndexError" THEN token
                 ELSE IF \E k \in DOMAIN token : token[k] = "i" THEN "True" ELSE "False"

\* the lsattr lines of at most n characters
RECURSIVE OutputsUpTo(_)
OutputsUpTo(n) ==
    IF n = 0 THEN {<<>>}
    ELSE LET shorter == OutputsUpTo(n - 1)
         IN  shorter \cup {Append(t, c) : t \in {u \in shorter : Len(u) = n - 1}, c \in OutChars}

\* a successful lsattr prints a line with an attribute field
LsattrOutputs == {o \in OutputsUpTo(MaxOutLen) : \E k \in DOMAIN o : o[k] # " "}

\* is_immutable applied to every outcome of the tool and every bounded output
InitIsImmutable ==
    /\ ProgramAtRest
    /\ fin \in {"missing", "fails", "ok"} \X LsattrOutputs
    /\ fout = None

ApplyIsImmutable ==
    /\ fout = None
    /\ fout' = IsImmutable(fin[1], fin[2])
    /\ UNCHANGED <<fin, progVars>>

NextIsImmutable == ApplyIsImmutable

SpecIsImmutable == InitIsImmutable /\ [][NextIsImmutable]_vars

\* what run() does with the result of handle_check_readonly
RunAfterCheck(r) ==
    IF r \in {"True", "False"} THEN "continues"
    ELSE IF RunCatches(r) THEN "returns"
    ELSE "raises"

\* check_readonly applied to every answer of access, statvfs, lsattr and the
\* operator, with and without prompting; the result, whether the operator
\* was asked, and what run() does, in this order
InitCheckReadonly ==
    /\ ProgramAtRest
    /\ fin \in BOOLEAN \X BOOLEAN \X {"missing", "fails", "ok"} \X BOOLEAN \X BOOLEAN \X Responses
    /\ fout = None

ApplyCheckReadonly ==
    /\ fout = None
    /\ LET r == CheckReadonlyFrom(fin[1], fin[2], fin[3], fin[4], fin[5], fin[6])
       IN  fout' = <<r,
                     IF ~fin[1] /\ AsksOperator(fin[2], fin[3], fin[4], fin[5])
                     THEN "asked" ELSE "not asked",
                     RunAfterCheck(r)>>
    /\ UNCHANGED <<fin, progVars>>

NextCheckReadonly == ApplyCheckReadonly

SpecCheckReadonly == InitCheckReadonly /\ [][NextCheckReadonly]_vars

\* check_directory_existence applied to every chain of ancestors of bounded
\* depth, with os.stat of the parent succeeding or failing
InitDirectoryExistence ==
    /\ ProgramAtRest
    /\ fin \in AncChainsUpTo(MaxWalkDepth) \X BOOLEAN
    /\ fout = None

ApplyDirectoryExistence ==
    /\ fout = None
    /\ fout' = WalkFrom(fin[1], 1, fin[2])
    /\ UNCHANGED <<fin, progVars>>

NextDirectoryExistence == ApplyDirectoryExistence

SpecDirectoryExistence == InitDirectoryExistence /\ [][NextDirectoryExistence]_vars

\* the command line of the editor for every valid argument vector of the
\* payload and every uid in SUDO_UID; 0 is the uid of a caller who is root
EditorInputs ==
    {<<o, t, e>> \o d : o \in {"/etc/a", "/etc/b"}, t \in {"/tmp/x", "/tmp/y"},
                        e \in {"vi", "nano", "ed"}, d \in {<<>>, <<"--debug">>}}
    \X {0, 1000, 1001}

InitEditorCommand ==
    /\ ProgramAtRest
    /\ fin \in EditorInputs
    /\ fout = None

ApplyEditorCommand ==
    /\ fout = None
    /\ ParseArgs(fin[1]) = "ok"
    /\ fout' = EditorCommand(fin[1], fin[2])
    /\ UNCHANGED <<fin, progVars>>

NextEditorCommand == ApplyEditorCommand

SpecEditorCommand == InitEditorCommand /\ [][NextEditorCommand]_vars

\* validate_path applied to every file system the caller can meet
InitValidatePath ==
    /\ ProgramAtRest
    /\ fin \in Worlds
    /\ fout = None

ApplyValidatePath ==
    /\ fout = None
    /\ fout' = ValidatePath(fin)
    /\ UNCHANGED <<fin, progVars>>

NextValidatePath == ApplyValidatePath

SpecValidatePath == InitValidatePath /\ [][NextValidatePath]_vars

\* =========================================================== the properties

\* positions of the trace holding an operation on a path
At(op, path) == {i \in DOMAIN trace : trace[i].op = op /\ trace[i].path = path}
AtOK(op, path, ok) == {i \in At(op, path) : trace[i].ok = ok}

\* positions holding any attribute toggle
Toggles == {i \in DOMAIN trace : trace[i].op \in {"chattr -i", "chattr +i"}}

\* the payload's run() has ended (returned or raised)
RunEnded == ipc = "exit" /\ ParseArgs(iargs) = "ok"

\* the target is exactly as it was when the session began
TargetUntouched ==
    /\ tgtKind = orig.kind
    /\ tgtData = orig.data
    /\ tgtImm = orig.imm
    /\ dirImm = orig.dimm

\* C1: when the payload is unreadable or its digest differs from the pinned
\* one, main() issues no elevation request (run() is not entered, the broker
\* is not invoked, no scratch file is created) and returns 1.
C1_IntegrityGate ==
    payload # "ok" =>
        /\ mpc \in {"validate_script", "done"}
        /\ nbroker = 0
        /\ ~tempExists
        /\ trace = <<>>
        /\ ipc = "idle"
        /\ mpc = "done" => mret = 1 /\ mraised = None

C1_Witness == mpc = "done" /\ payload = "unreadable" /\ mret = 1

\* C2: once chattr -i has succeeded on the operative path p, chattr +i on p
\* is attempted before copy_to_immutable_original returns or raises, also
\* when the copy raised FileCopyError; the order is -i, copy, +i, each toggle
\* is issued once, and no other path is toggled.
C2_ReapplyOnEveryExit ==
    LET p == ChattrPath(original_file_exists)
    IN  /\ \A i \in Toggles : trace[i].path = p
        /\ Cardinality(At("chattr -i", p)) <= 1
        /\ Cardinality(At("chattr +i", p)) <= 1
        /\ \A j \in At("chattr +i", p) :
              \E i \in AtOK("chattr -i", p, TRUE), k \in At("copy", "target") :
                 i < k /\ k < j
        /\ (ipc \in {"cmp", "exit", "idle"} /\ AtOK("chattr -i", p, TRUE) # {}) =>
              \E i \in AtOK("chattr -i", p, TRUE), k \in At("copy", "target"),
                 j \in At("chattr +i", p) : i < k /\ k < j

C2_Witness ==
    /\ ipc = "exit"
    /\ ierr = "FileCopyError"
    /\ AtOK("chattr -i", "target", TRUE) # {}
    /\ AtOK("copy", "target", FALSE) # {}
    /\ At("chattr +i", "target") # {}

\* C3: for a target that exists as a regular file, when staging succeeded,
\* the editor exited successfully and left a scratch content different from
\* the target's, and run() returns normally, the target's content equals the
\* scratch file's content and the payload exits with status 0.
C3_Premise ==
    /\ RunEnded
    /\ ierr = None
    /\ orig.kind = "file"
    /\ AtOK("copy", "temp", TRUE) # {}
    /\ AtOK("editor", "temp", TRUE) # {}
    /\ temp # orig.data

C3_EditedContentCommitted ==
    C3_Premise => tgtKind = "file" /\ tgtData = temp /\ istatus = 0

C3_Witness == C3_Premise /\ tgtData = temp /\ Len(temp) = Len(orig.data)

\* C4 (as stated): for a target that does not exist in an existing directory,
\* a successful editor leaving a non-empty scratch file means the target is
\* created with the scratch content; an empty scratch file or a failed
\* editor means no file is at the target path when run() ends.
C4_NewTarget == RunEnded /\ orig.kind = "absent" /\ parentKind = "dir"

C4_NoFileWhenEmptyOrFailed ==
    (\/ AtOK("editor", "temp", TRUE) # {} /\ temp = <<>>
     \/ AtOK("editor", "temp", FALSE) # {}) => tgtKind = "absent"

Gate ==
    IF original_file_exists THEN temp # orig.data ELSE Len(temp) > 0

\* handle_copy_to_original has taken its decision
DecisionMade ==
    /\ ipc \in {"chattr_minus", "copy", "chattr_plus", "cmp", "exit"}
    /\ AtOK("editor", "temp", TRUE) # {}

\* the commit step (copy_to_original) has been entered
CommitEntered ==
    \/ ipc \in {"chattr_minus", "copy", "chattr_plus", "cmp"}
    \/ At("copy", "target") # {}
    \/ Toggles # {}

\* C5: the commit step is performed if and only if the gate holds (the
\* target pre-existed and the scratch content differs from it, or it did not
\* and the scratch file is non-empty).  When the gate is false nothing is
\* written to the target, no chattr is issued even for an immutable path,
\* the message is "unchanged" or "not created", and run() succeeds.
C5_CommitIffGate ==
    DecisionMade =>
        /\ CommitEntered <=> Gate
        /\ should_copy <=> Gate
        /\ ~Gate =>
              /\ At("copy", "target") = {}
              /\ Toggles = {}
              /\ TargetUntouched
              /\ (IF original_file_exists THEN "unchanged" ELSE "not created") \in msgs
              /\ ipc = "exit" /\ ierr = None /\ istatus = 0

C5_Witness ==
    /\ DecisionMade
    /\ ~Gate
    /\ immutable
    /\ original_file_exists
    /\ temp # <<>>

\* the operator was asked and declined
Declined == \E i \in DOMAIN trace : trace[i].op = "prompt" /\ ~trace[i].ok

\* C6: when the operative path is immutable and the operator declines the
\* removal, run() returns normally (exit status 0), the editor is never
\* invoked, no chattr is issued, and the target's content and attributes are
\* unchanged.
C6_DeclineIsSuccess ==
    (Declined /\ ipc # "idle") =>
        /\ ipc = "exit"
        /\ ierr = None
        /\ istatus = 0
        /\ At("editor", "temp") = {}
        /\ At("copy", "temp") = {}
        /\ Toggles = {}
        /\ TargetUntouched
        /\ AttrOf(ChattrPath(original_file_exists))

C6_Witness == Declined /\ ipc = "exit" /\ ~original_file_exists /\ dirImm

\* C7: after a successful edit of a target whose operative object bore the
\* attribute, the attribute is on that object again: on the file when the
\* target pre-existed, on the parent directory and not on the new file when
\* the target was created.
C7_Premise ==
    /\ RunEnded
    /\ ierr = None
    /\ immutable
    /\ AtOK("editor", "temp", TRUE) # {}

C7_AttributeRestored ==
    C7_Premise =>
        IF original_file_exists
        THEN tgtImm /\ dirImm = orig.dimm
        ELSE dirImm /\ ~tgtImm

C7_Witness ==
    /\ C7_Premise
    /\ ~original_file_exists
    /\ tgtKind = "file"
    /\ AtOK("chattr +i", "parent", TRUE) # {}

\* the commit has written the scratch content to the target without error
Committed == AtOK("copy", "target", TRUE) # {}

C9_EditorFailureStops ==
    (AtOK("editor", "temp", FALSE) # {} /\ ipc # "idle") =>
        /\ ipc = "exit"
        /\ ierr = "EditTempFileError"
        /\ istatus = 1
        /\ ~CommitEntered
        /\ TargetUntouched

C9_Witness ==
    /\ AtOK("editor", "temp", FALSE) # {}
    /\ ipc = "exit"
    /\ immutable
    /\ temp # orig.data

\* C10: on every exit path of the unprivileged run() after the scratch file
\* was created, the scratch file no longer exists unless it is non-empty and
\* the elevated step failed.
C10_ScratchNeverLeftBehind ==
    (mpc \in {"done", "r_validate"} /\ tempExists) =>
        /\ Len(temp) > 0
        /\ returncode # NoCode
        /\ returncode # 0

\* the same for the exits of run() that follow the broker's exit
C10_ScratchAfterBroker ==
    (mpc \in {"done", "r_validate"} /\ tempExists /\ returncode # NoCode) =>
        /\ Len(temp) > 0
        /\ returncode # 0

\* C11: when the broker has exited, run() deletes the scratch file whatever
\* it holds if the status is 0 or 226; for any other status it deletes the
\* scratch file only if it is empty, and a non-empty one is kept as it is.
C11_ScratchRemoval ==
    [][mpc = "r_result" =>
          /\ returncode \in {0, EXIT_NAMESPACE} => ~tempExists'
          /\ returncode \notin {0, EXIT_NAMESPACE} =>
                /\ tempExists' <=> Len(temp) > 0
                /\ tempExists' => temp' = temp]_vars

C11_Witness ==
    /\ mpc = "done"
    /\ returncode \notin {NoCode, 0, EXIT_NAMESPACE}
    /\ tempExists
    /\ Len(temp) > 0
    /\ At("remove", "temp") = {}

\* run() of the unprivileged program has returned (to the loop of main())
RunReturned ==
    \/ mpc = "done" /\ idx >= 1 /\ mraised = None /\ ~(valid = "ok" /\ returncode = NoCode)
    \/ mpc = "r_validate" /\ idx > 1

NamespaceMessage == "No such directory, or path is in a privileged location"

\* C12: run() returns 0 for the broker's status 0; 1, with the "No such
\* directory" message, for 226; 1 for a path that failed validation (the
\* broker is then not run); and every other status of the broker unchanged.
C12_StatusMapping ==
    RunReturned =>
        /\ valid # "ok" => exit_code = 1 /\ returncode = NoCode
        /\ valid = "ok" =>
              /\ returncode = 0 => exit_code = 0
              /\ returncode = EXIT_NAMESPACE => exit_code = 1 /\ NamespaceMessage \in msgs
              /\ returncode \notin {0, EXIT_NAMESPACE} => exit_code = returncode

C12_Witness ==
    /\ RunReturned
    /\ valid = "ok"
    /\ returncode = 130
    /\ exit_code = 130
    /\ idx = 2

\* C13: a path that validate_path rejects makes run() return 1 with no
\* scratch file created and the broker not invoked for it.
C13_RejectedBeforeScratch ==
    valid \notin {None, "ok"} =>
        /\ mpc = "done"
        /\ exit_code = 1
        /\ mret = 1
        /\ ~tempExists
        /\ At("mkstemp", "temp") = {}
        /\ At("run0", "payload") = {}
        /\ nbroker = idx - 1
        /\ ipc = "idle"

C13_Witness ==
    /\ valid = "read-only filesystem"
    /\ mpc = "done"
    /\ idx = 2
    /\ nbroker = 1

\* C14: validate_path rejects exactly when the path is a directory (as
\* os.path.isdir reports it to the caller), or a regular file the caller can
\* read and write, or check_directory_existence says NO, or the read-only
\* query is true for the path, or unavailable for the path and true for its
\* directory.  Otherwise it accepts: also when the directory's existence is
\* MAYBE, and when the query is unavailable for both path and directory.
C14_RejectsExactlyWhen ==
    fout # None =>
        LET w == fin
            isDir == w.visible /\ w.kind = "dir"
            alreadyWritable == w.visible /\ w.kind = "file" /\ w.userRW
            noDirectory == CheckDirectoryExistence(w) = "NO"
            readOnly == \/ w.pathQuery /\ w.rofs
                        \/ ~w.pathQuery /\ w.dirQuery /\ w.dirRofs
        IN  /\ fout # "ok" <=> (isDir \/ alreadyWritable \/ noDirectory \/ readOnly)
            /\ (CheckDirectoryExistence(w) = "MAYBE" /\ ~w.pathQuery /\ ~w.dirQuery
                   /\ ~isDir /\ ~alreadyWritable) => fout = "ok"

C14_Witness ==
    /\ fout = "ok"
    /\ CheckDirectoryExistence(fin) = "MAYBE"
    /\ ~fin.pathQuery
    /\ ~fin.dirQuery
    /\ fin.dirRofs
    /\ fin.kind = "file"

\* C15: the argument vector built by build_run0_arguments is accepted by the
\* payload's parse_args, with three arguments and with the colour hint as
\* the fourth: the payload goes on to run() and never exits with status 2
\* for "too many arguments".
C15_ArgumentsAccepted ==
    (ipc # "idle" /\ iargs = Tail(run0_args.command_args)) =>
        /\ ParseArgs(iargs) = "ok"
        /\ istatus # 2
        /\ "run0edit_inner.py: Error: too many arguments" \notin msgs

\* the same for the vector built without a colour hint
C15_ThreeArgumentsAccepted ==
    (ipc # "idle" /\ opts.bgcolor = None) =>
        /\ Len(iargs) = 3
        /\ ParseArgs(iargs) = "ok"
        /\ istatus # 2

\* the operator was asked about the immutable attribute
Asked == \E i \in DOMAIN trace : trace[i].op = "prompt"

\* C16: when the caller asked for no prompts (RUN0EDIT_NO_PROMPT is in the
\* payload's environment), the payload does not ask the operator about an
\* immutable operative path and goes on as if the removal was accepted: no
\* run ends as declined.
C16_NoPromptSuppresses ==
    (opts.no_prompt /\ "RUN0EDIT_NO_PROMPT" \in run0_args.setenv /\ ipc # "idle") =>
        /\ ~Asked
        /\ "user declined to remove immutable attribute; exiting" \notin msgs
        /\ (AttrOf(ChattrPath(original_file_exists)) /\ ipc \in {"stage", "edit"}) => immutable

\* C17: with the caller in debug mode (RUN0EDIT_DEBUG is in the payload's
\* environment) a Run0editError raised by run() is re-raised by the payload's
\* main(); without debug mode main() returns 1.
C17_DebugReraises ==
    (ipc = "exit" /\ ParseArgs(iargs) = "ok" /\ ierr # None) =>
        IF opts.debug /\ "RUN0EDIT_DEBUG" \in run0_args.setenv
        THEN iraised = ierr
        ELSE iraised = None /\ istatus = 1

\* the half of C17 without debug mode
C17_WithoutDebugReturnsOne ==
    (ipc = "exit" /\ ParseArgs(iargs) = "ok" /\ ierr # None /\ ~opts.debug) =>
        iraised = None /\ istatus = 1

BaselineThenWritable(props, first) ==
    LET n == Len(SYSTEMD_SANDBOX_PROPERTIES)
    IN  /\ Len(props) = n + 1
        /\ SubSeq(props, 1, n) = SYSTEMD_SANDBOX_PROPERTIES
        /\ \E i \in 1..n : props[i] = Prop("ReadOnlyPaths", <<"/">>)
        /\ {i \in DOMAIN props : props[i].name = "ReadWritePaths"} = {n + 1}
        /\ props[n + 1].value = <<first, "temp">>

\* C19: the request holds the sandbox baseline (with ReadOnlyPaths=/)
\* unchanged and in order, followed by exactly one ReadWritePaths property
\* naming exactly two paths: the resolved target, or its parent directory
\* when the target does not exist, and the scratch file.
C19_WritablePaths ==
    run0_args # NoArgs =>
        BaselineThenWritable(run0_args.systemd_properties,
                             IF orig.kind # "absent" THEN "target" ELSE "parent")

\* the same with existence as os.path.exists reports it to the caller
C19_WritablePathsAsSeen ==
    run0_args # NoArgs =>
        BaselineThenWritable(run0_args.systemd_properties,
                             IF userSees /\ orig.kind # "absent" THEN "target" ELSE "parent")

\* what the claim says each character becomes
EscapedChar(c) ==
    IF c = Backslash THEN <<Backslash, Backslash>>
    ELSE IF c = DoubleQuote THEN <<Backslash, DoubleQuote>>
    ELSE <<c>>

RECURSIVE EscapedString(_)
EscapedString(str) ==
    IF str = <<>> THEN <<>> ELSE EscapedChar(Head(str)) \o EscapedString(Tail(str))

\* the number of backslashes that end just before position i
RECURSIVE BackslashesBefore(_, _)
BackslashesBefore(str, i) ==
    IF i > 1 /\ str[i - 1] = Backslash THEN 1 + BackslashesBefore(str, i - 1) ELSE 0

\* reading an escaped string back: a backslash makes the next character literal
RECURSIVE Unescape(_)
Unescape(str) ==
    IF str = <<>> THEN <<>>
    ELSE IF Head(str) = Backslash /\ Len(str) >= 2
         THEN <<str[2]>> \o Unescape(SubSeq(str, 3, Len(str)))
    ELSE <<Head(str)>> \o Unescape(Tail(str))

\* C20: escape_path turns every backslash into two backslashes and every
\* double quote into backslash + double quote and leaves the other
\* characters alone; every double quote of the result has an odd number of
\* backslashes before it; and un-escaping the result gives the input back.
C20_EscapePath ==
    fout # None =>
        /\ fout = EscapedString(fin)
        /\ \A i \in DOMAIN fout :
              fout[i] = DoubleQuote => BackslashesBefore(fout, i) % 2 = 1
        /\ Unescape(fout) = fin

C20_Witness ==
    /\ fout # None
    /\ Len(fin) = MaxPathLen
    /\ fin[1] = Backslash
    /\ fin[2] = DoubleQuote
    /\ fin[3] = Backslash
    /\ fout[6] = Backslash

\* C21: the path inside the description is escaped like the paths of
\* ReadWritePaths: the description is run0edit "<escaped path>", and no
\* double quote of the path ends the quoted part (each one between the
\* opening and the closing quote has an odd number of backslashes before it).
C21_DescriptionEscaped ==
    fout # None =>
        LET d == fout[1]
        IN  /\ d = <<"run0edit", " ", DoubleQuote>> \o EscapePath(fin) \o <<DoubleQuote>>
            /\ \A i \in 4..(Len(d) - 1) :
                  d[i] = DoubleQuote => BackslashesBefore(d, i) % 2 = 1

\* the paths of ReadWritePaths are escaped
C21_WritablePathsEscaped ==
    fout # None =>
        LET w == fout[2]
        IN  /\ \A i \in 3..(Len(w) - 1) :
                  (w[i] = DoubleQuote /\ BackslashesBefore(w, i) % 2 = 0) =>
                      \/ w[i + 1] = " "
                      \/ w[i - 1] = " "
            /\ Cardinality({i \in DOMAIN w :
                              w[i] = DoubleQuote /\ BackslashesBefore(w, i) % 2 = 0}) = 4

\* C22: every broker invocation of a main() run is preceded by a digest
\* check of its own, made after the previous invocation ended: there are
\* never more broker invocations than digest checks, and while the broker
\* is being invoked for path number idx, idx checks have been made.
C22_CheckedBeforeEveryRequest ==
    /\ nbroker <= nchecks
    /\ mpc \in {"r_wait", "r_result"} => nchecks = idx

\* C23: main() selects the editor once, before the first path, and takes
\* the paths in order: a path is worked on only after every earlier path's
\* run() returned 0, with one broker invocation each.  main() stops at the
\* first path whose run() returns non-zero and returns that code; it
\* returns 0 only after the run() of every path returned 0.
C23_PathsInOrder ==
    /\ mpc \in {"validate_script", "usage", "editor"} => idx = 0 /\ nbroker = 0
    /\ (idx > 1 /\ mpc # "done") => exit_code = 0
    /\ mpc = "r_validate" => nbroker = idx - 1
    /\ idx <= opts.npaths
    /\ RunReturned =>
          /\ mpc = "done" => mret = exit_code
          /\ (mpc = "done" /\ exit_code = 0) => idx = opts.npaths /\ nbroker = opts.npaths
          /\ exit_code # 0 => mpc = "done" /\ nbroker <= idx

C23_Witness ==
    /\ RunReturned
    /\ mpc = "done"
    /\ opts.npaths = 2
    /\ idx = 1
    /\ mret = 130

\* C24: when python3 or run0 cannot be found, build_run0_arguments raises
\* CommandNotFoundError: the broker is not invoked for that path, main()
\* prints "command ... not found" and ends without working on later paths,
\* returning 1, or re-raising the error in debug mode.
C24_MissingCommand ==
    "command not found" \in msgs =>
        /\ mpc = "done"
        /\ At("run0", "payload") = {}
        /\ nbroker = idx - 1
        /\ ipc = "idle"
        /\ IF opts.debug
           THEN mraised = "CommandNotFoundError" /\ mret = NoCode
           ELSE mraised = None /\ mret = 1

C24_Witness ==
    /\ "command not found" \in msgs
    /\ opts.debug
    /\ mraised = "CommandNotFoundError"
    /\ opts.npaths = 2
    /\ idx = 1

\* the copy to the target has just failed: copy_file_contents raised
\* FileCopyError, which leaves run() or waits for the finally clause
CopyJustFailed ==
    /\ trace' = Append(trace, Ev("copy", "target", FALSE))
    /\ ierr' = "FileCopyError" \/ copyFailed'

\* C25: when the target did not exist at classification and another actor
\* has created a file there before the commit, the commit's copy fails with
\* FileCopyError (exclusive create), the run does not end in success, and
\* the other actor's file keeps its content: it is neither overwritten nor
\* truncated.
C25_ExclusiveCreate ==
    /\ [][(ipc = "copy" /\ ~original_file_exists /\ tgtKind = "file") =>
              /\ tgtKind' = "file"
              /\ tgtData' = tgtData
              /\ ipc' # "copy" => CopyJustFailed]_vars
    /\ [][(ipc \in AfterClassification \cup {"chattr_plus", "exit"} /\ ~original_file_exists
              /\ tgtKind = "file") =>
              tgtKind' = "file" /\ tgtData' = tgtData]_vars
    /\ []((ipc = "exit" /\ ~original_file_exists /\ orig.kind = "absent"
              /\ AtOK("copy", "target", FALSE) # {}) => ierr \in {"FileCopyError", "ChattrError"})

C25_Witness ==
    /\ ipc = "exit"
    /\ orig.kind = "absent"
    /\ ~original_file_exists
    /\ tgtKind = "file"
    /\ Len(tgtData) > 0
    /\ Len(temp) > 0
    /\ temp # tgtData
    /\ AtOK("copy", "target", FALSE) # {}
    /\ ierr = "FileCopyError"

\* C26: when the final component of the target path is a symlink at the
\* moment copy_file_contents writes to it, the copy fails with FileCopyError
\* and the file the symlink points to is neither truncated nor written.
C26_NoFollow ==
    [][tgtKind = "symlink" =>
          /\ tgtKind' = "symlink"
          /\ tgtData' = tgtData
          /\ (ipc = "copy" /\ ipc' # "copy") => CopyJustFailed]_vars

C26_Witness ==
    /\ ipc = "exit"
    /\ original_file_exists
    /\ tgtKind = "symlink"
    /\ Len(tgtData) > 0
    /\ temp # tgtData
    /\ AtOK("copy", "target", FALSE) # {}
    /\ ierr = "FileCopyError"

\* C27: within one edit session the target path is symlink-resolved once;
\* no later step of the unprivileged or of the elevated process resolves it
\* again.
C27_ResolvedOnce == Cardinality(At("realpath", "target")) <= 1

\* the elevated process resolves the path it was handed once, when run() begins
C27_PayloadResolvesOnce ==
    Cardinality({i \in At("realpath", "target") : \E j \in At("mkstemp", "temp") : j < i}) <= 1

\* the first white-space-delimited token of an lsattr line contains the marker
MarkerInFirstToken(out) ==
    \E k \in DOMAIN out :
        /\ out[k] = "i"
        /\ \A j \in 1..k : out[j] = " " => \A h \in 1..j : out[h] = " "

\* what is_immutable is said to return: false whenever the tool did not
\* succeed, otherwise whether the first token contains the marker
SaidImmutable(tool, out) ==
    IF tool = "ok" /\ MarkerInFirstToken(out) THEN "True" ELSE "False"

\* C28: is_immutable returns false on every failure of the attribute tool
\* (non-zero exit, or tool not found) and never raises; when the tool
\* succeeds it returns true exactly when the first white-space-delimited
\* token of the output contains 'i'.
C28_IsImmutable == fout # None => fout = SaidImmutable(fin[1], fin[2])

\* the same for the tool found: a non-zero exit gives false, a successful
\* run gives true exactly for the marker in the first token
C28_ToolFound == (fout # None /\ fin[1] # "missing") => fout = SaidImmutable(fin[1], fin[2])

\* C29: in the immutable commit path the comparison comes after the
\* attribute has been re-applied: every comparison is preceded, in this
\* order, by a successful chattr -i, the copy and a successful chattr +i on
\* the operative path, so the attribute is on whenever the comparison runs
\* and whenever FileContentsMismatchError has been raised.
C29_VerifyAfterReapply ==
    LET path == ChattrPath(original_file_exists)
    IN  /\ \A c \in At("cmp", "target") :
              \E m \in AtOK("chattr -i", path, TRUE), k \in At("copy", "target"),
                 p \in AtOK("chattr +i", path, TRUE) : m < k /\ k < p /\ p < c
        /\ (ipc = "cmp" \/ ierr = "FileContentsMismatchError") =>
              immutable /\ AttrOf(path) /\ AtOK("chattr +i", path, TRUE) # {}

C29_Witness ==
    /\ ipc = "exit"
    /\ ierr = "FileContentsMismatchError"
    /\ immutable
    /\ AttrOf(ChattrPath(original_file_exists))
    /\ At("cmp", "target") # {}

\* the payload is at the editor or beyond it
StagePassed ==
    \/ ipc \in {"edit", "decide", "chattr_minus", "copy", "chattr_plus", "cmp"}
    \/ At("editor", "temp") # {}

\* C30: in the elevated run() the target is copied to the scratch file if
\* and only if the target exists; when that copy fails with FileCopyError
\* the editor is not invoked and the target is not written; for a target
\* that does not exist no copy is attempted before the editor runs.
C30_StagingIffExists ==
    /\ At("copy", "temp") # {} => original_file_exists
    /\ (StagePassed /\ original_file_exists) =>
          /\ AtOK("copy", "temp", TRUE) # {}
          /\ \A e \in At("editor", "temp") : \E c \in AtOK("copy", "temp", TRUE) : c < e
    /\ AtOK("copy", "temp", FALSE) # {} =>
          /\ ipc \in {"exit", "idle"}
          /\ ierr = "FileCopyError"
          /\ At("editor", "temp") = {}
          /\ ~CommitEntered
          /\ TargetUntouched
    /\ (StagePassed /\ ~original_file_exists) =>
          \A e \in At("editor", "temp") :
              \A c \in DOMAIN trace : trace[c].op = "copy" => e < c

C30_Witness ==
    /\ ipc = "exit"
    /\ original_file_exists
    /\ AtOK("copy", "temp", FALSE) # {}
    /\ ierr = "FileCopyError"
    /\ At("editor", "temp") = {}

\* the place of an event in the order of run(): classification, read-only
\* check, staging, editor, removal of the attribute, commit, re-application,
\* comparison; 0 for the events of other parts of the program
StepRank(e) ==
    IF e.op = "lstat" THEN 1
    ELSE IF e.op \in {"access", "lsattr", "prompt"} THEN 2
    ELSE IF e.op = "copy" /\ e.path = "temp" THEN 3
    ELSE IF e.op = "editor" THEN 4
    ELSE IF e.op = "chattr -i" THEN 5
    ELSE IF e.op = "copy" /\ e.path = "target" THEN 6
    ELSE IF e.op = "chattr +i" THEN 7
    ELSE IF e.op = "cmp" THEN 8
    ELSE 0

PayloadSteps == {i \in DOMAIN trace : StepRank(trace[i]) > 0}

\* C31: in every execution of the elevated run() the steps occur in the
\* order classify, read-only check, stage, edit, commit; the editor starts
\* only after staging has finished, no write to the target and no attribute
\* toggle happens before the editor has exited successfully, and no step is
\* executed twice.
C31_StepOrder ==
    /\ \A i, j \in PayloadSteps :
          i < j => /\ StepRank(trace[i]) <= StepRank(trace[j])
                   /\ trace[i].op = trace[j].op => trace[i].path # trace[j].path
    /\ \A i, j \in PayloadSteps :
          (i < j /\ trace[i].op = "copy" /\ trace[j].op = "copy") =>
              trace[i].path = "temp" /\ trace[j].path = "target"
    /\ \A e \in At("editor", "temp") : \A c \in At("copy", "temp") : c < e /\ trace[c].ok
    /\ \A w \in At("copy", "target") \cup Toggles :
          \E e \in AtOK("editor", "temp", TRUE) : e < w
    /\ (ipc \in {"decide", "chattr_minus", "copy", "chattr_plus", "cmp"}) =>
          AtOK("editor", "temp", TRUE) # {}
    /\ (ipc \in {"classify", "check_readonly", "stage", "edit"}) =>
          (At("editor", "temp") = {} /\ At("copy", "target") = {} /\ Toggles = {}
           /\ TargetUntouched)

C31_Witness ==
    /\ ipc = "exit"
    /\ At("lstat", "target") # {}
    /\ At("lsattr", "target") # {}
    /\ AtOK("copy", "temp", TRUE) # {}
    /\ AtOK("editor", "temp", TRUE) # {}
    /\ AtOK("chattr -i", "target", TRUE) # {}
    /\ AtOK("copy", "target", TRUE) # {}
    /\ AtOK("chattr +i", "target", TRUE) # {}
    /\ AtOK("cmp", "target", TRUE) # {}
    /\ ierr = None

\* what check_readonly is said to do for the answers <<access, read-only
\* file system, lsattr, attribute, prompting, response>>; the path counts
\* as immutable when the tool ran and reported the attribute
SaidCheckReadonly(in) ==
    LET isImmutable == in[3] = "ok" /\ in[4]
        accepts == Len(in[6]) > 0 /\ in[6][1] \in {"y", "Y"}
    IN  IF in[1] THEN "False"
        ELSE IF in[2] THEN "ReadOnlyFilesystemError"
        ELSE IF isImmutable
             THEN IF ~in[5] \/ accepts THEN "True" ELSE "ReadOnlyImmutableError"
        ELSE "ReadOnlyOtherError"

SaidAsked(in) ==
    IF ~in[1] /\ ~in[2] /\ in[3] = "ok" /\ in[4] /\ in[5] THEN "asked" ELSE "not asked"

SaidRunAfterCheck(r) ==
    IF r \in {"True", "False"} THEN "continues"
    ELSE IF r = "ReadOnlyImmutableError" THEN "returns"
    ELSE "raises"

\* C32: check_readonly returns false for a readable and writable path;
\* otherwise raises ReadOnlyFilesystemError on a read-only file system;
\* otherwise, for an immutable path, returns true when prompting is disabled
\* or the operator accepts and raises ReadOnlyImmutableError when the
\* operator declines, the operator being asked only in this case; otherwise
\* raises ReadOnlyOtherError.  run() returns normally only for
\* ReadOnlyImmutableError.
C32_CheckReadonly ==
    fout # None =>
        /\ fout[1] = SaidCheckReadonly(fin)
        /\ fout[2] = SaidAsked(fin)
        /\ fout[3] = SaidRunAfterCheck(fout[1])

\* the same with the attribute tool installed
C32_ToolFound ==
    (fout # None /\ (fin[1] \/ fin[2] \/ fin[3] # "missing")) =>
        /\ fout[1] = SaidCheckReadonly(fin)
        /\ fout[2] = SaidAsked(fin)
        /\ fout[3] = SaidRunAfterCheck(fout[1])

\* what stops the walk at component k: the directory before it is not a
\* directory ("NO"), cannot be listed ("MAYBE"), or does not list it ("NO")
Obstacle(anc, k) ==
    IF k > 1 /\ anc[k - 1] = "notdir" THEN "NO"
    ELSE IF k > 1 /\ anc[k - 1] = "nolist" THEN "MAYBE"
    ELSE IF anc[k] = "absent" THEN "NO"
    ELSE "none"

\* the answer said to be given: that of the first obstacle from the root,
\* else MAYBE when the parent cannot be stat'ed, else whether the parent is
\* a directory
SaidDirectoryExistence(anc, statOK) ==
    LET stops == {k \in 1..Len(anc) : Obstacle(anc, k) # "none"}
    IN  IF stops # {}
        THEN Obstacle(anc, CHOOSE k \in stops : \A h \in stops : k <= h)
        ELSE IF ~statOK THEN "MAYBE"
        ELSE IF anc = <<>> \/ anc[Len(anc)] \in {"dir", "nolist"} THEN "YES"
        ELSE "NO"

\* C33: check_directory_existence walks the ancestors of the resolved path
\* from the root: NO when a component is missing from a listable ancestor,
\* when an ancestor is not a directory, or when the parent is not a
\* directory; MAYBE when an ancestor cannot be listed or the parent cannot
\* be stat'ed; YES otherwise.  It never returns NO for a path whose parent
\* directory exists.
C33_DirectoryExistence ==
    fout # None =>
        /\ fout = SaidDirectoryExistence(fin[1], fin[2])
        /\ fout = "NO" => (fin[1] # <<>> /\ fin[1][Len(fin[1])] \notin {"dir", "nolist"})

C33_Witness ==
    /\ fout = "MAYBE"
    /\ Len(fin[1]) = 3
    /\ fin[1][1] = "dir"
    /\ fin[1][2] = "nolist"
    /\ fin[1][3] = "absent"

C35_ReapplyFailure ==
    LET path == ChattrPath(original_file_exists)
        notice == "Immutable attribute reapplied."
    IN  /\ AtOK("chattr +i", path, FALSE) # {} =>
              /\ ierr = "ChattrError"
              /\ notice \notin msgs
              /\ ChattrFailedMessage \subseteq msgs
              /\ CopyFailedMessage \cap msgs = {}
        /\ notice \in msgs <=> AtOK("chattr +i", path, TRUE) # {}

C35_Witness ==
    /\ ipc = "exit"
    /\ AtOK("copy", "target", FALSE) # {}
    /\ AtOK("chattr +i", ChattrPath(original_file_exists), FALSE) # {}
    /\ ierr = "ChattrError"
    /\ "WARNING: the immutable attribute may have been removed!" \in msgs

\* C36: when the removal of the attribute (the first chattr -i) fails, no
\* write to the target is attempted, no chattr +i is issued, the target's
\* content and attributes are as they were, and the outcome is ChattrError
\* with exit status 1 of the payload.
C36_RemovalFailure ==
    AtOK("chattr -i", ChattrPath(original_file_exists), FALSE) # {} =>
        /\ At("copy", "target") = {}
        /\ At("chattr +i", "target") \cup At("chattr +i", "parent") = {}
        /\ At("cmp", "target") = {}
        /\ TargetUntouched
        /\ ierr = "ChattrError"
        /\ istatus = 1
        /\ ChattrFailedMessage \subseteq msgs

C36_Witness ==
    /\ ipc = "exit"
    /\ AtOK("chattr -i", "target", FALSE) # {}
    /\ tgtImm
    /\ temp # tgtData
    /\ ierr = "ChattrError"
    /\ istatus = 1

\* C37: the elevated run() never ends with the immutable attribute missing
\* from a path that bore it at the start unless the outcome is ChattrError:
\* for every other outcome the attributes of the target and of its
\* directory at the end are those of the start.
C37_AttributeKept ==
    (ipc \in {"exit", "idle"} /\ ierr # "ChattrError") =>
        /\ tgtImm = orig.imm
        /\ dirImm = orig.dimm

C37_Witness ==
    /\ ipc = "exit"
    /\ ierr = "FileCopyError"
    /\ ~original_file_exists
    /\ orig.dimm
    /\ dirImm
    /\ AtOK("chattr -i", "parent", TRUE) # {}
    /\ AtOK("copy", "target", FALSE) # {}

\* C38: when copy_file_contents fails with FileCopyError the destination
\* still holds the content it had before the call, and no destination file
\* has been created that did not exist before.
C38_FailedCopyKeepsDestination ==
    /\ AtOK("copy", "target", FALSE) # {} => (tgtKind = orig.kind /\ tgtData = orig.data)
    /\ AtOK("copy", "temp", FALSE) # {} => temp = <<>>

\* a copy that fails at os.open leaves the destination as it was
C38_FailedOpenKeepsDestination ==
    [][(ipc = "copy" /\ ~TargetOpens(~original_file_exists)) =>
          (tgtKind' = tgtKind /\ tgtData' = tgtData)]_vars

\* the events of the read-only check and of the attribute toggles
CheckEvents == {i \in DOMAIN trace : trace[i].op \in {"access", "lsattr", "prompt"}}

\* C39: the classification made at the start of the elevated run() is used
\* for the rest of the session: the object checked for the attribute is the
\* object toggled at the commit (the target if classified as existing, else
\* its directory); staging is performed exactly when the commit opens the
\* destination without create, and the commit creates exclusively exactly
\* when nothing was staged.
C39_ClassificationKept ==
    LET operative == IF original_file_exists THEN "target" ELSE "parent"
    IN  /\ \A i \in CheckEvents \cup Toggles : trace[i].path = operative
        /\ Cardinality(At("lstat", "target")) <= 1
        /\ ipc \in {"chattr_minus", "copy", "chattr_plus", "cmp"} =>
              /\ At("copy", "temp") # {} <=> ~CommitCreates(original_file_exists)
              /\ At("copy", "temp") = {} <=>
                    {"O_CREAT", "O_EXCL"} \subseteq CopyFlags(CommitCreates(original_file_exists))
        /\ At("copy", "target") # {} => (At("copy", "temp") # {} <=> original_file_exists)

C39_Witness ==
    /\ ipc = "copy"
    /\ immutable
    /\ ~original_file_exists
    /\ At("lsattr", "parent") # {}
    /\ AtOK("chattr -i", "parent", TRUE) # {}
    /\ At("copy", "temp") = {}

\* the ways the elevated run() can end in failure
RunErrors ==
    {"NoDirectoryError", "NotRegularFileError", "ReadOnlyFilesystemError", "ReadOnlyOtherError",
     "CommandNotFoundError", "FileCopyError", "EditTempFileError", "ChattrError",
     "FileContentsMismatchError"}

\* C40: when every external call returns, every edit session terminates:
\* the elevated process, once started, reaches its exit with one outcome
\* (a normal return or one error), the unprivileged run() returns after the
\* broker has exited, main() ends, and before the end of main() there is
\* always a step to take.
C40_Terminates ==
    /\ (ipc = "parse_args") ~> (ipc = "exit" /\ ierr \in RunErrors \cup {None})
    /\ (mpc = "r_wait") ~> (mpc = "r_result")
    /\ (mpc = "r_result") ~> (mpc \in {"r_validate", "done"} /\ exit_code # NoCode)
    /\ <>(mpc = "done")
    /\ [](mpc # "done" => ENABLED <<Next>>_vars)

C40_Witness ==
    /\ mpc = "done"
    /\ nbroker = 1
    /\ mret = 1
    /\ ierr = "FileContentsMismatchError"
====
